---- MODULE Spec2Model ----
(***************************************************************************)
(* The history-tracked multiverse graph editor: the App component's        *)
(* undo/redo history over (nodes, theme) snapshots, its selection, its      *)
(* graph mutation handlers and the asynchronous theme request.              *)
(*                                                                          *)
(* Every event handler runs to completion on the single event thread, so    *)
(* each handler is one action.  handleGenerateTheme is the one handler      *)
(* that suspends (await): it is two actions, and its second half runs with  *)
(* the values its closure captured when the request was issued.             *)
(***************************************************************************)
EXTENDS Integers, Sequences, FiniteSets, TLC

\* ---------------------------------------------------------------- bounds

\* Longest history that is built: a handler that would push beyond it is not run.
MaxHistory == 2
\* Largest value Date.now() reaches (the clock starts at 0).
MaxClock == 1
\* Longest stored selection built by shift-clicking.
MaxSel == 2

\* ------------------------------------------------------------- constants

Min(a, b) == IF a <= b THEN a ELSE b

FutureTypes == {"ROOT", "PROBABLE", "PLAUSIBLE", "POSSIBLE", "PREPOSTEROUS"}

COLORS ==
  [t \in FutureTypes |->
     CASE t = "ROOT" -> "#ffffff"
       [] t = "PROBABLE" -> "#4ade80"
       [] t = "PLAUSIBLE" -> "#60a5fa"
       [] t = "POSSIBLE" -> "#a78bfa"
       [] t = "PREPOSTEROUS" -> "#f472b6"]

\* parentId: null
Null == "null"

\* Coordinates are kept in half units, so that half a spread is an integer.
Fixed(v) == 2 * v

Position(x, y, z) == <<Fixed(x), Fixed(y), Fixed(z)>>

INITIAL_NODES ==
  << [id |-> "root", parentId |-> Null, type |-> "ROOT",
      position |-> Position(0, 0, 0), title |-> "Current Self",
      description |-> "UX Designer at a mid-sized tech firm.",
      principles |-> <<"User Advocacy", "Simplicity">>,
      color |-> COLORS["ROOT"], linkedIds |-> <<>>],
     [id |-> "prob-1", parentId |-> "root", type |-> "PROBABLE",
      position |-> Position(0, 0, 10), title |-> "Senior Product Owner",
      description |-> "You climbed the ladder.",
      principles |-> <<"Efficiency", "Growth", "Stability">>,
      color |-> COLORS["PROBABLE"], linkedIds |-> <<>>],
     [id |-> "plaus-1", parentId |-> "root", type |-> "PLAUSIBLE",
      position |-> Position(5, 2, 12), title |-> "Freelance Ethical Consultant",
      description |-> "You left the firm to advise on Ethical AI.",
      principles |-> <<"Ethics", "Autonomy", "Transparency">>,
      color |-> COLORS["PLAUSIBLE"], linkedIds |-> <<>>],
     [id |-> "poss-1", parentId |-> "root", type |-> "POSSIBLE",
      position |-> Position(-8, -4, 15), title |-> "Bio-Digital Weaver",
      description |-> "Design has merged with biology.",
      principles |-> <<"Biomimicry", "Regeneration", "Symbiosis">>,
      color |-> COLORS["POSSIBLE"], linkedIds |-> <<>>],
     [id |-> "prep-1", parentId |-> "root", type |-> "PREPOSTEROUS",
      position |-> Position(15, 10, 18), title |-> "Post-Human Architect",
      description |-> "You design experiences for collective consciousnesses.",
      principles |-> <<"Transhumanism", "Collectivism", "Immortality">>,
      color |-> COLORS["PREPOSTEROUS"], linkedIds |-> <<>>],
     [id |-> "prep-2", parentId |-> "root", type |-> "PREPOSTEROUS",
      position |-> Position(-12, 8, 14), title |-> "Neo-Luddite Scribe",
      description |-> "Technology collapsed.",
      principles |-> <<"Preservation", "Tangibility", "Community">>,
      color |-> COLORS["PREPOSTEROUS"], linkedIds |-> <<>>] >>

DEFAULT_THEME ==
  [backgroundColor |-> "#050505", nodeColors |-> COLORS, uiAccentColor |-> "#4ade80"]

\* ------------------------------------------------------------------ state

VARIABLES
  history,            \* useState<AppState[]>: the snapshots
  historyIndex,       \* useState(0): the cursor, counted from 0
  selectedIds,        \* useState<string[]>([])
  isGeneratingTheme,  \* useState(false)
  themeCall,          \* the suspended handleGenerateTheme call, with its closure
  apiKey,             \* process.env.API_KEY is set
  now,                \* what Date.now() last returned
  script,             \* bookkeeping of the round-trip scenario: which pushes, undos
                      \* and redos have been made (it is read by no handler)
  reflection,         \* UIOverlay useState<string | null>(null), <<>> for null
  loading,            \* UIOverlay useState(false)
  probes,             \* UIOverlay useState<string[] | null>(null), <<>> for null
  loadingProbes,      \* UIOverlay useState(false)
  reflectCall,        \* the suspended handleReflect calls, each with its node
  probeCall           \* the suspended handleGenerateProbes calls

vars == <<history, historyIndex, selectedIds, isGeneratingTheme, themeCall, apiKey, now,
          script, reflection, loading, probes, loadingProbes, reflectCall, probeCall>>

\* The state of the overlay's enrichment panels.
overlay == <<reflection, loading, probes, loadingProbes, reflectCall, probeCall>>

\* The overlay's effect on [selectedNodes]: it runs after every render that
\* computes selectedNodes anew (nodes or selectedIds is another array than
\* before) and clears what the panels show.  It neither clears the loading flags
\* nor cancels a pending call.
ResetEffect ==
  /\ reflection' = <<>>
  /\ probes' = <<>>
  /\ UNCHANGED <<loading, loadingProbes, reflectCall, probeCall>>

\* The handler changed neither nodes nor selectedIds: the effect does not run.
NoEffect == UNCHANGED overlay

\* The render destructures history[historyIndex]; when no such snapshot exists it
\* throws and the component tree is unmounted: no handler runs any more.
Mounted == historyIndex >= 0 /\ historyIndex < Len(history)

\* const { nodes, theme } = history[historyIndex]
nodes == history[historyIndex + 1].nodes

theme == history[historyIndex + 1].theme

\* ------------------------------------------------------- array helpers

\* Array.prototype.find over the node list: the index of the first node with
\* this id, 0 when there is none.
FindIndex(ns, id) ==
  IF \E i \in 1..Len(ns) : ns[i].id = id
  THEN CHOOSE i \in 1..Len(ns) : ns[i].id = id /\ \A j \in 1..(i - 1) : ns[j].id # id
  ELSE 0

Includes(s, x) == \E i \in 1..Len(s) : s[i] = x

\* prev.filter(id => id !== x)
Without(s, x) == SelectSeq(s, LAMBDA e : e # x)

\* `node-${Date.now()}`
NodeId(t) == "node-" \o ToString(t)

\* ------------------------------------------------------------ inputs

\* An id no node has.
MissingId == "no-such-node"

\* The ids a creation can assign.
CreatedIds == {NodeId(t) : t \in 0..MaxClock}

\* The nodes the user clicks on: two of the initial nodes and the first created.
ClickIds == {"root", "prob-1", NodeId(0)}

\* The parentId arguments of handleCreateNode.
ParentIds == {"root", MissingId, NodeId(0)}

\* The nodeId arguments of handleUpdateNode.
UpdateIds == {"root", MissingId, NodeId(0)}

\* What a creation is given by its environment: the data the branch form submits
\* (handleSubmitBranch: an empty principles field is submitted as ['Unknown']),
\* the three values Math.random() returns to calculateChildPosition, in halves
\* (0 stands for 0.0 and 1 for 0.5: the angle, the radius and the jitter on z),
\* and the time elapsed on the clock since Date.now() was last read.
CreateInputs ==
  { [data |-> [title |-> "The Data Monk", description |-> "Monastic",
               type |-> "PROBABLE", principles |-> <<"Unknown">>],
     random |-> <<0, 1, 0>>, elapsed |-> 0],
    [data |-> [title |-> "Star Gardener", description |-> "Orbital",
               type |-> "PREPOSTEROUS", principles |-> <<"Degrowth", "Circularity">>],
     random |-> <<1, 1, 1>>, elapsed |-> 1] }

\* What the principles editor submits (handleSavePrinciples): the root's own
\* principles unchanged, or a new list.
UpdateData ==
  { [principles |-> <<"User Advocacy", "Simplicity">>],
    [principles |-> <<"Care">>] }

\* A theme the service can return.
GENERATED_THEME ==
  [backgroundColor |-> "#0a0a12",
   nodeColors |->
     [t \in FutureTypes |->
        CASE t = "ROOT" -> "#e0e0ff"
          [] t = "PROBABLE" -> "#00c2a8"
          [] t = "PLAUSIBLE" -> "#3d5afe"
          [] t = "POSSIBLE" -> "#ff9100"
          [] t = "PREPOSTEROUS" -> "#ff1744"],
   uiAccentColor |-> "#ffd600"]

\* generateMultiverseTheme resolves to a theme, or to null.
NoTheme == <<>>

\* What the call to the model service does: it answers with a text, it answers
\* without a text, or it fails (the request is rejected, or the text does not
\* parse).
Outcomes == {"ok", "empty", "error"}

\* The text of a successful answer about a node.
ResponseText(nodeId) == "response about " \o nodeId

generateReflection(key, nodeId, outcome) ==
  IF ~key
  THEN "API Key is missing. Please check your environment configuration."
  ELSE CASE outcome = "ok" -> ResponseText(nodeId)
         [] outcome = "empty" -> "The multiverse is silent right now."
         [] OTHER ->
            "Static interference prevents a clear signal from the multiverse (API Error)."

generateCulturalProbes(key, nodeId, outcome) ==
  IF ~key
  THEN <<"API Key missing. Imagine a probe here.">>
  ELSE CASE outcome = "ok" -> <<ResponseText(nodeId)>>
         [] outcome = "empty" -> <<"The signal is weak.">>
         [] OTHER -> <<"Static interference (API Error).">>

generateMultiverseTheme(key, outcome) ==
  IF ~key THEN NoTheme
  ELSE CASE outcome = "ok" -> <<GENERATED_THEME>>
         [] outcome = "empty" -> NoTheme
         [] OTHER -> NoTheme

\* What a theme request made with an API key resolves to.
ThemeResults == {generateMultiverseTheme(TRUE, outcome) : outcome \in Outcomes}

\* --------------------------------------------------------- derived state

\* selectedIds.map(id => nodes.find(n => n.id === id)).filter(n => !!n)
selectedNodesOf(ns, ids) ==
  LET found == SelectSeq(ids, LAMBDA id : FindIndex(ns, id) # 0)
  IN  [i \in 1..Len(found) |-> ns[FindIndex(ns, found[i])]]

selectedNodes == selectedNodesOf(nodes, selectedIds)

\* primarySelectedNode as it would be if it were looked up from the last stored
\* id instead of the last selected node.
primarySelectedNodeStored ==
  IF Len(selectedIds) > 0 /\ FindIndex(nodes, selectedIds[Len(selectedIds)]) # 0
  THEN <<nodes[FindIndex(nodes, selectedIds[Len(selectedIds)])]>>
  ELSE <<>>

\* The last selected node, <<>> for null.
primarySelectedNode ==
  IF Len(selectedNodes) > 0 THEN <<selectedNodes[Len(selectedNodes)]>> ELSE <<>>

\* MultiverseCanvas: the node the camera tracks, looked up in the current nodes
\* from the last id of the selectedIds prop (the stored selection); <<>> when
\* the selection is empty or find returns undefined.
primaryNode ==
  LET primaryNodeId == IF Len(selectedIds) > 0 THEN selectedIds[Len(selectedIds)]
                       ELSE Null
  IN  IF FindIndex(nodes, primaryNodeId) # 0
      THEN <<nodes[FindIndex(nodes, primaryNodeId)]>>
      ELSE <<>>

canUndo == historyIndex > 0

canRedo == historyIndex < Len(history) - 1

\* --------------------------------------------------------------- history

\* The array setHistory's updater returns: prev.slice(0, historyIndex + 1) with
\* the new snapshot pushed, historyIndex being the one pushState closed over.
PushedHistory(prev, closedIndex, newNodes, newTheme) ==
  Append(SubSeq(prev, 1, Min(closedIndex + 1, Len(prev))),
         [nodes |-> newNodes, theme |-> newTheme])

\* No scenario is being followed.
NoScript == [phase |-> "off", pushes |-> 0, moves |-> 0, last |-> <<>>]

\* The round trip is followed from the seed: pushes first.
Pushing == [phase |-> "push", pushes |-> 0, moves |-> 0, last |-> <<>>]

\* The bookkeeping of a push of `snapshot`, and of an undo or a redo.
Counted(s, snapshot) ==
  IF s.phase = "push" THEN [s EXCEPT !.pushes = @ + 1, !.last = <<snapshot>>] ELSE s

Moved(s, phase) ==
  IF s.phase = "off" THEN s
  ELSE [s EXCEPT !.phase = phase, !.moves = IF s.phase = phase THEN @ + 1 ELSE 1]

\* pushState as called by a handler whose closure holds closedIndex.  The
\* cursor's updater, prev => prev + 1, reads the live cursor.
pushState(newNodes, newTheme, closedIndex) ==
  /\ historyIndex' = historyIndex + 1
  /\ history' = PushedHistory(history, closedIndex, newNodes, newTheme)
  /\ script' = Counted(script, [nodes |-> newNodes, theme |-> newTheme])

\* undo as it would be if stepping back also dropped the selection.
undoClearsSelection ==
  /\ Mounted
  /\ historyIndex' = IF historyIndex > 0 THEN historyIndex - 1 ELSE historyIndex
  /\ script' = Moved(script, "undo")
  /\ selectedIds' = <<>>
  /\ UNCHANGED <<isGeneratingTheme, themeCall, apiKey, now, history>>
  /\ ResetEffect

undo ==
  /\ Mounted
  /\ historyIndex' = IF historyIndex > 0 THEN historyIndex - 1 ELSE historyIndex
  /\ script' = Moved(script, "undo")
  /\ UNCHANGED <<selectedIds, isGeneratingTheme, themeCall, apiKey, now, history>>
  /\ IF historyIndex' # historyIndex THEN ResetEffect ELSE NoEffect

\* redo as it would be with its bound off by one: it stops one snapshot early.
redoStopsEarly ==
  /\ Mounted
  /\ historyIndex' = IF historyIndex < Len(history) - 2 THEN historyIndex + 1
                     ELSE historyIndex
  /\ script' = Moved(script, "redo")
  /\ UNCHANGED <<selectedIds, isGeneratingTheme, themeCall, apiKey, now, history>>
  /\ IF historyIndex' # historyIndex THEN ResetEffect ELSE NoEffect

redo ==
  /\ Mounted
  /\ historyIndex' = IF historyIndex < Len(history) - 1 THEN historyIndex + 1
                     ELSE historyIndex
  /\ script' = Moved(script, "redo")
  /\ UNCHANGED <<selectedIds, isGeneratingTheme, themeCall, apiKey, now, history>>
  /\ IF historyIndex' # historyIndex THEN ResetEffect ELSE NoEffect

\* ------------------------------------------------------------- selection

\* The selection as it would be if a shift-click always added the id.
SelectedAfterAdding(prev, id, isMultiSelect) ==
  IF isMultiSelect THEN Append(prev, id) ELSE <<id>>

SelectedAfter(prev, id, isMultiSelect) ==
  IF isMultiSelect
  THEN IF Includes(prev, id) THEN Without(prev, id) ELSE Append(prev, id)
  ELSE <<id>>

\* A click on a rendered node (shift held: isMultiSelect).
handleNodeSelect(id, isMultiSelect) ==
  /\ Mounted
  /\ FindIndex(nodes, id) # 0
  /\ Len(SelectedAfter(selectedIds, id, isMultiSelect)) <= MaxSel
  /\ selectedIds' = SelectedAfter(selectedIds, id, isMultiSelect)
  /\ UNCHANGED <<historyIndex, isGeneratingTheme, themeCall, apiKey, now, script, history>>
  /\ ResetEffect

handleCloseOverlay ==
  /\ Mounted
  /\ selectedIds' = <<>>
  /\ UNCHANGED <<historyIndex, isGeneratingTheme, themeCall, apiKey, now, script, history>>
  /\ ResetEffect

\* ------------------------------------------------------ graph mutations

\* The node list as it would be built if the source were linked to itself.
LinkedNodesSelf(ns, sourceId, targetId) ==
  [i \in 1..Len(ns) |->
     IF ns[i].id = sourceId /\ ~Includes(ns[i].linkedIds, sourceId)
     THEN [ns[i] EXCEPT !.linkedIds = Append(@, sourceId)]
     ELSE ns[i]]

\* The node list as it would be built without the test for an existing link.
LinkedNodesRepeated(ns, sourceId, targetId) ==
  [i \in 1..Len(ns) |->
     IF ns[i].id = sourceId
     THEN [ns[i] EXCEPT !.linkedIds = Append(@, targetId)]
     ELSE ns[i]]

\* The node list handleLinkSelectedNodes builds: every node with the source's id
\* gets the target's id appended to its links, unless it holds it already.
LinkedNodes(ns, sourceId, targetId) ==
  [i \in 1..Len(ns) |->
     IF ns[i].id = sourceId /\ ~Includes(ns[i].linkedIds, targetId)
     THEN [ns[i] EXCEPT !.linkedIds = Append(@, targetId)]
     ELSE ns[i]]

\* "Detect if a change actually happened": the first node with the source's id
\* has a links list of another length than before.
LinkChanged(ns, updatedNodes, sourceId) ==
  /\ FindIndex(updatedNodes, sourceId) # 0
  /\ FindIndex(ns, sourceId) # 0
  /\ Len(updatedNodes[FindIndex(updatedNodes, sourceId)].linkedIds)
       # Len(ns[FindIndex(ns, sourceId)].linkedIds)

\* handleLinkSelectedNodes as it would be if the early return also dropped the
\* selection.
handleLinkSelectedNodesResets ==
  /\ Mounted
  /\ UNCHANGED <<isGeneratingTheme, themeCall, apiKey, now>>
  /\ IF Len(selectedNodes) # 2
     THEN selectedIds' = <<>> /\ UNCHANGED <<historyIndex, script, history>> /\ ResetEffect
     ELSE LET source == selectedNodes[1]
              target == selectedNodes[2]
              updatedNodes == LinkedNodes(nodes, source.id, target.id)
          IN  /\ IF LinkChanged(nodes, updatedNodes, source.id)
                 THEN pushState(updatedNodes, theme, historyIndex)
                 ELSE UNCHANGED <<historyIndex, script, history>>
              /\ selectedIds' = <<source.id>>
              /\ ResetEffect

handleLinkSelectedNodes ==
  /\ Mounted
  /\ UNCHANGED <<isGeneratingTheme, themeCall, apiKey, now>>
  /\ IF Len(selectedNodes) # 2
     THEN UNCHANGED <<historyIndex, selectedIds, script, history>> /\ NoEffect
     ELSE LET source == selectedNodes[1]
              target == selectedNodes[2]
              updatedNodes == LinkedNodes(nodes, source.id, target.id)
          IN  /\ IF LinkChanged(nodes, updatedNodes, source.id)
                 THEN pushState(updatedNodes, theme, historyIndex)
                 ELSE UNCHANGED <<historyIndex, script, history>>
              /\ selectedIds' = <<source.id>>
              /\ ResetEffect

\* The cone of a future type: <<spreadXY, stepZ>>.
Cone(type) ==
  CASE type = "PROBABLE" -> <<3, 8>>
    [] type = "PLAUSIBLE" -> <<6, 10>>
    [] type = "POSSIBLE" -> <<12, 14>>
    [] type = "PREPOSTEROUS" -> <<20, 18>>
    [] OTHER -> <<5, 10>>

\* cos and sin of Math.random() * 2 * PI, for the draws 0.0 and 0.5.
CosTurn(d) == IF d = 0 THEN 1 ELSE -1

SinTurn(d) == 0

\* a, r, j: the three values of Math.random() (angle, radius, jitter on z).  With
\* coordinates and draws both in halves, radius = (r / 2) * spreadXY is
\* r * spreadXY half units and offsetZ = stepZ + (j / 2) * 2 is
\* Fixed(stepZ) + 2 * j half units.
calculateChildPosition(parent, type, a, r, j) ==
  LET spreadXY == Cone(type)[1]
      stepZ == Cone(type)[2]
      radius == r * spreadXY
      offsetX == CosTurn(a) * radius
      offsetY == SinTurn(a) * radius
      offsetZ == Fixed(stepZ) + 2 * j
  IN  <<parent.position[1] + offsetX, parent.position[2] + offsetY,
        parent.position[3] + offsetZ>>

\* The new node as it would be if it were created without a parent.
NewNodeOrphan(parentNode, parentId, data, th, t, a, r, j) ==
  [id |-> NodeId(t), parentId |-> Null, type |-> data.type,
   position |-> calculateChildPosition(parentNode, data.type, a, r, j),
   title |-> data.title, description |-> data.description,
   principles |-> data.principles, color |-> th.nodeColors[data.type],
   linkedIds |-> <<>>]

\* The new node as it would be if it took the colour of its parent's type.
NewNodeParentColor(parentNode, parentId, data, th, t, a, r, j) ==
  [id |-> NodeId(t), parentId |-> parentId, type |-> data.type,
   position |-> calculateChildPosition(parentNode, data.type, a, r, j),
   title |-> data.title, description |-> data.description,
   principles |-> data.principles, color |-> th.nodeColors[parentNode.type],
   linkedIds |-> <<>>]

NewNode(parentNode, parentId, data, th, t, a, r, j) ==
  [id |-> NodeId(t), parentId |-> parentId, type |-> data.type,
   position |-> calculateChildPosition(parentNode, data.type, a, r, j),
   title |-> data.title, description |-> data.description,
   principles |-> data.principles, color |-> th.nodeColors[data.type],
   linkedIds |-> <<>>]

\* handleCreateNode as it would be without the test for the parent: a child of
\* a missing parent is placed at the first node.
handleCreateNodeUnchecked(parentId, data, t, a, r, j) ==
  /\ Mounted
  /\ LET parentNode == IF FindIndex(nodes, parentId) = 0 THEN nodes[1]
                       ELSE nodes[FindIndex(nodes, parentId)]
         newNode == NewNode(parentNode, parentId, data, theme, t, a, r, j)
     IN  /\ now' = t
         /\ selectedIds' = <<newNode.id>>
         /\ pushState(Append(nodes, newNode), theme, historyIndex)
         /\ ResetEffect
  /\ UNCHANGED <<isGeneratingTheme, themeCall, apiKey>>

\* t: what Date.now() returns.
handleCreateNode(parentId, data, t, a, r, j) ==
  /\ Mounted
  /\ IF FindIndex(nodes, parentId) = 0
     THEN UNCHANGED <<historyIndex, selectedIds, now, script, history>> /\ NoEffect
     ELSE LET parentNode == nodes[FindIndex(nodes, parentId)]
              newNode == NewNode(parentNode, parentId, data, theme, t, a, r, j)
          IN  /\ now' = t
              /\ selectedIds' = <<newNode.id>>
              /\ pushState(Append(nodes, newNode), theme, historyIndex)
              /\ ResetEffect
  /\ UNCHANGED <<isGeneratingTheme, themeCall, apiKey>>

\* { ...n, ...updates }
Merged(n, updates) ==
  [f \in DOMAIN n |-> IF f \in DOMAIN updates THEN updates[f] ELSE n[f]]

UpdatedNodes(ns, nodeId, updates) ==
  [i \in 1..Len(ns) |-> IF ns[i].id = nodeId THEN Merged(ns[i], updates) ELSE ns[i]]

handleUpdateNode(nodeId, updates) ==
  /\ Mounted
  /\ pushState(UpdatedNodes(nodes, nodeId, updates), theme, historyIndex)
  /\ UNCHANGED <<selectedIds, isGeneratingTheme, themeCall, apiKey, now>>
  /\ ResetEffect

\* --------------------------------------------------------- theme request

\* The recoloured nodes as they would be if the root kept its colour.
RecoloredKeepsRoot(ns, newTheme) ==
  [i \in 1..Len(ns) |->
     IF ns[i].type = "ROOT" THEN ns[i]
     ELSE [ns[i] EXCEPT !.color = newTheme.nodeColors[ns[i].type]]]

\* nodes.map(node => ({ ...node, color: newTheme.nodeColors[node.type] }))
Recolored(ns, newTheme) ==
  [i \in 1..Len(ns) |-> [ns[i] EXCEPT !.color = newTheme.nodeColors[ns[i].type]]]

\* The theme button is rendered while no node is selected and is disabled while
\* a request is pending.  With an API key the call suspends on the service; the
\* suspended call keeps the nodes and the pushState of the render it was made in.
handleGenerateTheme ==
  /\ Mounted
  /\ Len(selectedNodes) = 0
  /\ ~isGeneratingTheme
  /\ apiKey
  /\ isGeneratingTheme' = TRUE
  /\ themeCall' = Append(themeCall, [nodes |-> nodes, historyIndex |-> historyIndex])
  /\ UNCHANGED <<historyIndex, selectedIds, apiKey, now, script, history>>
  /\ NoEffect

\* Without an API key generateMultiverseTheme returns null at once: the handler
\* sets and clears isGeneratingTheme before any other event is handled.
handleGenerateThemeNoKey ==
  /\ Mounted
  /\ Len(selectedNodes) = 0
  /\ ~isGeneratingTheme
  /\ ~apiKey
  /\ UNCHANGED vars

\* The resumed call as it would be if a missing theme fell back to the default
\* theme instead of being skipped.
ThemeSettledFallback(newTheme) ==
  /\ themeCall # <<>>
  /\ LET applied == IF newTheme # NoTheme THEN newTheme[1] ELSE DEFAULT_THEME
     IN  pushState(Recolored(themeCall[1].nodes, applied), applied,
                   themeCall[1].historyIndex)
  /\ ResetEffect
  /\ isGeneratingTheme' = FALSE
  /\ themeCall' = Tail(themeCall)
  /\ UNCHANGED <<selectedIds, apiKey, now>>

\* The service settles and the suspended call resumes.
ThemeSettled(newTheme) ==
  /\ themeCall # <<>>
  /\ IF newTheme # NoTheme
     THEN /\ pushState(Recolored(themeCall[1].nodes, newTheme[1]), newTheme[1],
                       themeCall[1].historyIndex)
          /\ ResetEffect
     ELSE UNCHANGED <<historyIndex, script, history>> /\ NoEffect
  /\ isGeneratingTheme' = FALSE
  /\ themeCall' = Tail(themeCall)
  /\ UNCHANGED <<selectedIds, apiKey, now>>

\* ------------------------------------------------- reflection and probes

\* The node whose panel the overlay shows, <<>> for null.
selectedNode == IF Len(selectedNodes) = 1 THEN <<selectedNodes[1]>> ELSE <<>>

\* handleReflect as it would be if its button stayed while a call is loading.
handleReflectWhileLoading ==
  /\ Mounted
  /\ selectedNode # <<>>
  /\ reflection = <<>>
  /\ apiKey
  /\ loading' = TRUE
  /\ reflection' = <<>>
  /\ reflectCall' = Append(reflectCall, selectedNode[1].id)
  /\ UNCHANGED <<historyIndex, selectedIds, isGeneratingTheme, themeCall, apiKey, now,
                 script, probes, loadingProbes, probeCall, history>>

\* The "Consult Oracle" button is rendered in the panel of the one selected node
\* while there is no reflection and none is loading.  With an API key the call
\* suspends on the service.
handleReflect ==
  /\ Mounted
  /\ selectedNode # <<>>
  /\ reflection = <<>>
  /\ ~loading
  /\ apiKey
  /\ loading' = TRUE
  /\ reflection' = <<>>
  /\ reflectCall' = Append(reflectCall, selectedNode[1].id)
  /\ UNCHANGED <<historyIndex, selectedIds, isGeneratingTheme, themeCall, apiKey, now,
                 script, probes, loadingProbes, probeCall, history>>

\* Without an API key generateReflection returns its message at once: the handler
\* runs to its end before any other event is handled.
handleReflectNoKey ==
  /\ Mounted
  /\ selectedNode # <<>>
  /\ reflection = <<>>
  /\ ~loading
  /\ ~apiKey
  /\ reflection' = <<generateReflection(apiKey, selectedNode[1].id, "ok")>>
  /\ UNCHANGED <<historyIndex, selectedIds, isGeneratingTheme, themeCall, apiKey, now,
                 script, loading, probes, loadingProbes, reflectCall, probeCall,
                 history>>

\* The service settles and the suspended handleReflect resumes: it stores the
\* result whatever is selected by now (state updates of an unmounted component
\* are dropped).
ReflectSettled(outcome) ==
  /\ reflectCall # <<>>
  /\ reflectCall' = Tail(reflectCall)
  /\ IF Mounted
     THEN /\ reflection' = <<generateReflection(apiKey, Head(reflectCall), outcome)>>
          /\ loading' = FALSE
     ELSE UNCHANGED <<reflection, loading>>
  /\ UNCHANGED <<historyIndex, selectedIds, isGeneratingTheme, themeCall, apiKey, now,
                 script, probes, loadingProbes, probeCall, history>>

handleGenerateProbes ==
  /\ Mounted
  /\ selectedNode # <<>>
  /\ probes = <<>>
  /\ ~loadingProbes
  /\ apiKey
  /\ loadingProbes' = TRUE
  /\ probes' = <<>>
  /\ probeCall' = Append(probeCall, selectedNode[1].id)
  /\ UNCHANGED <<historyIndex, selectedIds, isGeneratingTheme, themeCall, apiKey, now,
                 script, reflection, loading, reflectCall, history>>

handleGenerateProbesNoKey ==
  /\ Mounted
  /\ selectedNode # <<>>
  /\ probes = <<>>
  /\ ~loadingProbes
  /\ ~apiKey
  /\ probes' = <<generateCulturalProbes(apiKey, selectedNode[1].id, "ok")>>
  /\ UNCHANGED <<historyIndex, selectedIds, isGeneratingTheme, themeCall, apiKey, now,
                 script, reflection, loading, loadingProbes, reflectCall, probeCall,
                 history>>

ProbesSettled(outcome) ==
  /\ probeCall # <<>>
  /\ probeCall' = Tail(probeCall)
  /\ IF Mounted
     THEN /\ probes' = <<generateCulturalProbes(apiKey, Head(probeCall), outcome)>>
          /\ loadingProbes' = FALSE
     ELSE UNCHANGED <<probes, loadingProbes>>
  /\ UNCHANGED <<historyIndex, selectedIds, isGeneratingTheme, themeCall, apiKey, now,
                 script, reflection, loading, reflectCall, history>>

\* ---------------------------------------------------------- specification

Start ==
  /\ history = <<[nodes |-> INITIAL_NODES, theme |-> DEFAULT_THEME]>>
  /\ historyIndex = 0
  /\ selectedIds = <<>>
  /\ isGeneratingTheme = FALSE
  /\ themeCall = <<>>
  /\ apiKey \in BOOLEAN
  /\ now = 0
  /\ reflection = <<>>
  /\ loading = FALSE
  /\ probes = <<>>
  /\ loadingProbes = FALSE
  /\ reflectCall = <<>>
  /\ probeCall = <<>>

Init == Start /\ script = NoScript

\* The handlers other than undo and redo, kept within `depth` snapshots.  A theme
\* request is issued only where its push, made with the cursor it closes over, fits.
Edits(depth) ==
  \/ \E id \in ClickIds, isMultiSelect \in BOOLEAN : handleNodeSelect(id, isMultiSelect)
  \/ handleCloseOverlay
  \/ handleLinkSelectedNodes /\ Len(history') <= depth
  \/ \E parentId \in ParentIds, input \in CreateInputs :
       /\ now + input.elapsed <= MaxClock
       /\ handleCreateNode(parentId, input.data, now + input.elapsed,
                           input.random[1], input.random[2], input.random[3])
       /\ Len(history') <= depth
  \/ \E nodeId \in UpdateIds, updates \in UpdateData :
       handleUpdateNode(nodeId, updates) /\ Len(history') <= depth
  \/ handleGenerateTheme /\ historyIndex + 2 <= depth
  \/ handleGenerateThemeNoKey
  \/ \E newTheme \in ThemeResults : ThemeSettled(newTheme)

Next == undo \/ redo \/ Edits(MaxHistory)

Spec == Init /\ [][Next]_vars

\* The same program with room for one more snapshot.
NextDeep == undo \/ redo \/ Edits(MaxHistory + 1)

SpecDeep == Init /\ [][NextDeep]_vars

\* The round trip: from the seed, N pushes (with whatever else the handlers other
\* than undo and redo do in between), then N undos, then N redos.
InitRoundTrip == Start /\ script = Pushing

NextRoundTrip ==
  \/ script.phase = "push" /\ Edits(MaxHistory + 1)
  \/ /\ \/ script.phase = "push" /\ script.pushes > 0
        \/ script.phase = "undo" /\ script.moves < script.pushes
     /\ undo
  \/ /\ \/ script.phase = "undo" /\ script.moves = script.pushes
        \/ script.phase = "redo" /\ script.moves < script.pushes
     /\ redo

SpecRoundTrip == InitRoundTrip /\ [][NextRoundTrip]_vars

\* The edits alone, without undo and redo, with room for two more snapshots.
NextEdits == Edits(MaxHistory + 2)

SpecEdits == Init /\ [][NextEdits]_vars

\* The handlers of the overlay's reflection and probe panels.
Panels ==
  \/ handleReflect
  \/ handleReflectNoKey
  \/ \E outcome \in Outcomes : ReflectSettled(outcome)
  \/ handleGenerateProbes
  \/ handleGenerateProbesNoKey
  \/ \E outcome \in Outcomes : ProbesSettled(outcome)

\* The panels in use, with selection, linking, the theme request, undo and redo
\* around them.
NextOverlay ==
  \/ undo
  \/ redo
  \/ \E id \in ClickIds, isMultiSelect \in BOOLEAN : handleNodeSelect(id, isMultiSelect)
  \/ handleCloseOverlay
  \/ handleLinkSelectedNodes /\ Len(history') <= MaxHistory
  \/ handleGenerateTheme /\ historyIndex + 2 <= MaxHistory
  \/ handleGenerateThemeNoKey
  \/ \E newTheme \in ThemeResults : ThemeSettled(newTheme)
  \/ Panels

SpecOverlay == Init /\ [][NextOverlay]_vars

\* The same, with every pending service call settling eventually: the promise
\* returned by the service is resolved on each of its paths (result, empty
\* response, caught error).
SpecOverlayFair ==
  /\ SpecOverlay
  /\ WF_vars(\E newTheme \in ThemeResults : ThemeSettled(newTheme))
  /\ WF_vars(\E outcome \in Outcomes : ReflectSettled(outcome))
  /\ WF_vars(\E outcome \in Outcomes : ProbesSettled(outcome))

\* ================================================================ claims

Seed == [nodes |-> INITIAL_NODES, theme |-> DEFAULT_THEME]

\* After the step, (ns, th) is the last snapshot and the cursor is on it.
OnTop(ns, th) ==
  /\ historyIndex' = Len(history') - 1
  /\ history'[historyIndex' + 1] = [nodes |-> ns, theme |-> th]

\* After the step, the snapshots up to the old cursor are the old ones.
PastKept ==
  \A i \in 1..(historyIndex + 1) : i <= Len(history') /\ history'[i] = history[i]

\* C1: in every reachable state the history cursor is valid,
\* 0 <= historyIndex < history.length, so that the current snapshot exists.
C1_CursorValid == 0 <= historyIndex /\ historyIndex < Len(history)

\* C2: immediately after every push (by create, link, update or the application
\* of a theme result) the cursor is the last index of the history and the
\* current snapshot is the (nodes, theme) pair that was pushed.
C2_PushBecomesCurrent ==
  [][ /\ \A parentId \in ParentIds, input \in CreateInputs :
           ( /\ FindIndex(nodes, parentId) # 0
             /\ handleCreateNode(parentId, input.data, now + input.elapsed,
                                 input.random[1], input.random[2], input.random[3]) )
           => OnTop(Append(nodes,
                           NewNode(nodes[FindIndex(nodes, parentId)], parentId,
                                   input.data, theme, now + input.elapsed,
                                   input.random[1], input.random[2], input.random[3])),
                    theme)
      /\ ( /\ handleLinkSelectedNodes
           /\ Len(selectedNodes) = 2
           /\ LinkChanged(nodes,
                          LinkedNodes(nodes, selectedNodes[1].id, selectedNodes[2].id),
                          selectedNodes[1].id) )
         => OnTop(LinkedNodes(nodes, selectedNodes[1].id, selectedNodes[2].id), theme)
      /\ \A nodeId \in UpdateIds, updates \in UpdateData :
           handleUpdateNode(nodeId, updates)
           => OnTop(UpdatedNodes(nodes, nodeId, updates), theme)
      /\ \A newTheme \in ThemeResults \ {NoTheme} :
           ThemeSettled(newTheme)
           => OnTop(Recolored(themeCall[1].nodes, newTheme[1]), newTheme[1])
    ]_vars

\* C3: a push discards only snapshots strictly beyond the cursor: every snapshot
\* at an index <= the cursor held immediately before the push is still present
\* after it, at the same index and unchanged.
C3_PushKeepsPast == [][history' # history => PastKept]_vars

\* C4: starting from the seed-only history, after N pushes followed by N undos
\* the current snapshot is the seed snapshot, and N redos after that make the
\* current snapshot the one the Nth push produced.  (script counts the pushes and
\* the moves and keeps the last snapshot pushed.)
C4_RoundTrip ==
  /\ (script.phase = "push" /\ script.pushes = 0)
       => (Mounted /\ history[historyIndex + 1] = Seed)
  /\ (script.phase = "undo" /\ script.moves = script.pushes)
       => (Mounted /\ history[historyIndex + 1] = Seed)
  /\ (script.phase = "redo" /\ script.moves = script.pushes)
       => (Mounted /\ history[historyIndex + 1] = script.last[1])

\* Two pushes, two undos and two redos have been made and the snapshot they end
\* on is not the seed.
C4_Witness ==
  /\ script.phase = "redo"
  /\ script.pushes >= 2
  /\ script.moves = script.pushes
  /\ script.last # <<Seed>>

\* C5: a push made while the cursor k is below the last index gives a history of
\* length exactly k + 2 whose first k + 1 snapshots are the old ones, with the
\* cursor at k + 1, and Redo is a no-op right after it.
C5_PushAfterUndo ==
  [][(history' # history /\ historyIndex < Len(history) - 1)
       => /\ Len(history') = historyIndex + 2
          /\ PastKept
          /\ historyIndex' = historyIndex + 1
          /\ ~canRedo' ]_vars

\* C6: Undo and Redo only move the cursor: Undo takes one off it iff it is above
\* 0, Redo adds one iff it is below the last index, otherwise it stays; neither
\* changes the history or the selection.
C6_UndoRedoMoveCursorOnly ==
  [][ /\ undo => /\ historyIndex' = IF historyIndex > 0 THEN historyIndex - 1
                                    ELSE historyIndex
                 /\ history' = history
                 /\ selectedIds' = selectedIds
      /\ redo => /\ historyIndex' = IF historyIndex < Len(history) - 1
                                    THEN historyIndex + 1 ELSE historyIndex
                 /\ history' = history
                 /\ selectedIds' = selectedIds ]_vars

\* The creation of node-0 has been undone: the cursor is back on the seed below
\* the created snapshot, and the selection still names the created node.
C6_Witness ==
  /\ Len(history) = 2
  /\ historyIndex = 0
  /\ selectedIds = <<NodeId(0)>>
  /\ FindIndex(history[2].nodes, NodeId(0)) # 0

\* C7: CreateNode with a parentId that no node of the current snapshot has
\* leaves history, cursor and selection unchanged.
C7_CreateWithoutParent ==
  [][\A parentId \in ParentIds, input \in CreateInputs :
       ( /\ FindIndex(nodes, parentId) = 0
         /\ handleCreateNode(parentId, input.data, now + input.elapsed,
                             input.random[1], input.random[2], input.random[3]) )
       => UNCHANGED <<history, historyIndex, selectedIds>> ]_vars

\* A parent is asked for that the current snapshot lacks, both one that never
\* existed and one that only a later snapshot has, while something is selected.
C7_Witness ==
  /\ Mounted
  /\ Len(history) = 2
  /\ selectedIds # <<>>
  /\ FindIndex(nodes, MissingId) = 0
  /\ \E id \in CreatedIds :
       FindIndex(nodes, id) = 0 /\ FindIndex(history[2].nodes, id) # 0

\* C8: in every snapshot of the history all node ids are pairwise distinct (a
\* created node never gets the id of a node already there, also when two nodes
\* are created at the same clock value or after an undo).
C8_UniqueIds ==
  \A s \in 1..Len(history) :
    \A i, j \in 1..Len(history[s].nodes) :
      history[s].nodes[i].id = history[s].nodes[j].id => i = j

\* C9: CreateNode with an existing parent pushes exactly one snapshot: the nodes
\* of the current one, unchanged and in order, followed by one new node with the
\* given parentId, category, title, description and principles, the current
\* theme's colour for its category and no manual links; the theme is the current
\* one; the selection becomes exactly the new node's id.
C9_CreateAppendsOneNode ==
  [][\A parentId \in ParentIds, input \in CreateInputs :
       ( /\ FindIndex(nodes, parentId) # 0
         /\ handleCreateNode(parentId, input.data, now + input.elapsed,
                             input.random[1], input.random[2], input.random[3]) )
       => /\ Len(history') = historyIndex + 2
          /\ PastKept
          /\ historyIndex' = historyIndex + 1
          /\ history'[historyIndex + 2].theme = theme
          /\ LET created == history'[historyIndex + 2].nodes
                 new == created[Len(created)]
             IN  /\ Len(created) = Len(nodes) + 1
                 /\ \A i \in 1..Len(nodes) : created[i] = nodes[i]
                 /\ new.parentId = parentId
                 /\ new.type = input.data.type
                 /\ new.title = input.data.title
                 /\ new.description = input.data.description
                 /\ new.principles = input.data.principles
                 /\ new.color = theme.nodeColors[input.data.type]
                 /\ new.linkedIds = <<>>
                 /\ selectedIds' = <<new.id>> ]_vars

\* A child of the root has just been created: it is the last node of the current
\* snapshot, which is on top of the history, and it is the selection.
C9_Witness ==
  /\ Len(history) = 2
  /\ historyIndex = 1
  /\ Len(nodes) = Len(INITIAL_NODES) + 1
  /\ nodes[Len(nodes)].parentId = "root"
  /\ selectedIds = <<nodes[Len(nodes)].id>>

\* C10: linking the same ordered pair (a, b) twice makes the history one longer,
\* not two: the call made while a does not link to b pushes one snapshot in
\* which b is appended to a's links, the call made while it does pushes nothing.
\* (Both calls are edits; SpecRoundTrip has room for the pushes of both before
\* its undos begin.)
C10_LinkTwiceOnePush ==
  [][(Len(selectedNodes) = 2 /\ handleLinkSelectedNodes)
       => LET a == selectedNodes[1].id
              b == selectedNodes[2].id
              links == nodes[FindIndex(nodes, a)].linkedIds
          IN  IF Includes(links, b)
              THEN UNCHANGED <<history, historyIndex>>
              ELSE /\ Len(history') = historyIndex + 2
                   /\ PastKept
                   /\ historyIndex' = historyIndex + 1
                   /\ LET after == history'[historyIndex + 2].nodes
                      IN  after[FindIndex(after, a)].linkedIds = Append(links, b) ]_vars

\* The root has been linked to prob-1 by one push from the seed, and the same
\* ordered pair is selected again.
C10_Witness ==
  /\ Len(history) = 2
  /\ historyIndex = 1
  /\ Includes(nodes[FindIndex(nodes, "root")].linkedIds, "prob-1")
  /\ selectedIds = <<"root", "prob-1">>

\* C11: LinkNodes invoked while the effective selection (the selected ids that
\* exist in the current snapshot) does not hold exactly two nodes is discarded:
\* no push, cursor unchanged, selection unchanged.
C11_LinkNeedsTwo ==
  [][(Len(selectedNodes) # 2 /\ handleLinkSelectedNodes)
       => UNCHANGED <<historyIndex, selectedIds, history>> ]_vars

\* Two ids are stored as selected but only one of them exists in the current
\* snapshot (the creation of the other has been undone).
C11_Witness ==
  /\ Mounted
  /\ Len(selectedIds) = 2
  /\ Len(selectedNodes) = 1
  /\ Len(history) = 2

\* C12: UpdateNode with an id that no node of the current snapshot has is a
\* no-op: nothing is pushed, history and cursor are unchanged.
C12_UpdateWithoutNode ==
  [][\A nodeId \in UpdateIds, updates \in UpdateData :
       (FindIndex(nodes, nodeId) = 0 /\ handleUpdateNode(nodeId, updates))
       => UNCHANGED <<historyIndex, history>> ]_vars

\* C13: UpdateNode on an id that exists pushes exactly one snapshot, also when
\* the values given are the current ones; in it only the given fields of the
\* matching node differ from the previous current snapshot: its other fields,
\* every other node, the node order and the theme are the same.
C13_UpdateChangesOneNode ==
  [][\A nodeId \in UpdateIds, updates \in UpdateData :
       (FindIndex(nodes, nodeId) # 0 /\ handleUpdateNode(nodeId, updates))
       => /\ Len(history') = historyIndex + 2
          /\ PastKept
          /\ historyIndex' = historyIndex + 1
          /\ history'[historyIndex + 2].theme = theme
          /\ LET updated == history'[historyIndex + 2].nodes
                 k == FindIndex(nodes, nodeId)
             IN  /\ Len(updated) = Len(nodes)
                 /\ \A f \in DOMAIN nodes[k] :
                      updated[k][f] = IF f \in DOMAIN updates THEN updates[f]
                                      ELSE nodes[k][f]
                 /\ \A i \in 1..Len(nodes) : i # k => updated[i] = nodes[i] ]_vars

\* C14: when a theme request returns a theme, then once it is applied the
\* current snapshot's theme is the returned theme and every node of the current
\* snapshot has the returned theme's colour for its category, whatever selection
\* change, create, link, update, undo or redo happened while it was pending.
C14_ThemeApplied ==
  [][\A newTheme \in ThemeResults \ {NoTheme} :
       ThemeSettled(newTheme)
       => /\ historyIndex' >= 0
          /\ historyIndex' < Len(history')
          /\ history'[historyIndex' + 1].theme = newTheme[1]
          /\ \A i \in 1..Len(history'[historyIndex' + 1].nodes) :
               history'[historyIndex' + 1].nodes[i].color
                 = newTheme[1].nodeColors[history'[historyIndex' + 1].nodes[i].type]
    ]_vars

\* C15: a theme request that yields no theme (no credentials, a transport or
\* parse error, an empty response) pushes nothing: history, cursor and with them
\* the current theme are unchanged.
C15_NoThemeNoPush ==
  [][(ThemeSettled(NoTheme) \/ handleGenerateThemeNoKey)
       => UNCHANGED <<historyIndex, history>> ]_vars

\* A request is pending whose closure is out of date: a snapshot has been pushed
\* since it was issued.
C15_Witness ==
  /\ themeCall # <<>>
  /\ Len(history) = 2
  /\ historyIndex = 1
  /\ themeCall[1].historyIndex = 0

\* C16: select(id, additive) with additive false makes the selection exactly
\* [id]; with additive true it removes the id if present, keeping the order of
\* the rest, and appends it at the end otherwise; clear() empties the selection.
\* Neither changes history or cursor, and after any step (select, clear, create,
\* link or other) the selection holds no id twice.
C16_SelectionToggle ==
  [][ /\ \A id \in ClickIds, additive \in BOOLEAN :
           handleNodeSelect(id, additive)
           => /\ UNCHANGED <<historyIndex, history>>
              /\ selectedIds' =
                   IF ~additive THEN <<id>>
                   ELSE IF \E i \in 1..Len(selectedIds) : selectedIds[i] = id
                        THEN SelectSeq(selectedIds, LAMBDA x : x # id)
                        ELSE selectedIds \o <<id>>
      /\ handleCloseOverlay
           => (selectedIds' = <<>> /\ UNCHANGED <<historyIndex, history>>)
      /\ \A i, j \in 1..Len(selectedIds') :
           selectedIds'[i] = selectedIds'[j] => i = j ]_vars

\* A created node is selected and another node has been added to the selection
\* by a shift-click.
C16_Witness ==
  /\ Mounted
  /\ Len(selectedIds) = 2
  /\ selectedIds[1] = NodeId(0)
  /\ FindIndex(nodes, NodeId(0)) # 0

\* C17: the effective selection is the stored selection without the ids absent
\* from the current snapshot's nodes, in the same order, and the primary
\* selection is the last element of that filtered sequence (none when it is
\* empty), also after an undo or redo that removes or restores selected nodes.
C17_EffectiveSelection ==
  Mounted =>
    LET kept == SelectSeq(selectedIds,
                          LAMBDA id : \E i \in 1..Len(nodes) : nodes[i].id = id)
    IN  /\ Len(selectedNodes) = Len(kept)
        /\ \A i \in 1..Len(kept) :
             /\ selectedNodes[i].id = kept[i]
             /\ \E k \in 1..Len(nodes) : nodes[k] = selectedNodes[i]
        /\ IF kept = <<>>
           THEN primarySelectedNode = <<>>
           ELSE /\ Len(primarySelectedNode) = 1
                /\ primarySelectedNode[1].id = kept[Len(kept)]
                /\ \E k \in 1..Len(nodes) : nodes[k] = primarySelectedNode[1]

\* The stored selection is [root, node-0] and the creation of node-0 has been
\* undone: the last stored id is absent from the current snapshot.
C17_Witness ==
  /\ Mounted
  /\ selectedIds = <<"root", NodeId(0)>>
  /\ FindIndex(nodes, NodeId(0)) = 0
  /\ Len(history) = 2

\* C20: for each of the three requests (reflection, probes, theme) what the call
\* resolves to without credentials differs from what it resolves to on a
\* transport or parse failure (every call resolves to a value: the operators
\* are total).
C20_OutcomesDistinct ==
  \A nodeId \in ClickIds, outcome \in Outcomes :
    /\ generateReflection(FALSE, nodeId, outcome)
         # generateReflection(TRUE, nodeId, "error")
    /\ generateCulturalProbes(FALSE, nodeId, outcome)
         # generateCulturalProbes(TRUE, nodeId, "error")
    /\ (apiKey => generateMultiverseTheme(FALSE, outcome)
                    # generateMultiverseTheme(apiKey, "error"))

\* C18: if the selection changes while a reflection or probe request issued
\* for node A is pending, the result that arrives later is discarded: it is not
\* stored as the displayed reflection or probe list while another node than A,
\* or no node, is the selected node.
C18_StaleResultDiscarded ==
  [][ /\ \A outcome \in Outcomes :
           (Mounted /\ ReflectSettled(outcome) /\ reflection' # <<>>)
           => (selectedNode # <<>> /\ selectedNode[1].id = Head(reflectCall))
      /\ \A outcome \in Outcomes :
           (Mounted /\ ProbesSettled(outcome) /\ probes' # <<>>)
           => (selectedNode # <<>> /\ selectedNode[1].id = Head(probeCall)) ]_vars

\* C19: at any time at most one theme request, at most one reflection request
\* and at most one probe request is in flight, while create, link, update, undo
\* and redo can be called during any pending request.
C19_OneRequestEach ==
  /\ Len(themeCall) <= 1
  /\ Len(reflectCall) <= 1
  /\ Len(probeCall) <= 1
  /\ (Mounted /\ (themeCall # <<>> \/ reflectCall # <<>> \/ probeCall # <<>>))
       => /\ ENABLED undo
          /\ ENABLED redo
          /\ ENABLED handleLinkSelectedNodes
          /\ \A parentId \in ParentIds, input \in CreateInputs :
               ENABLED handleCreateNode(parentId, input.data, now + input.elapsed,
                                        input.random[1], input.random[2],
                                        input.random[3])
          /\ \A nodeId \in UpdateIds, updates \in UpdateData :
               ENABLED handleUpdateNode(nodeId, updates)

\* A theme, a reflection and a probe request are pending together, and a link
\* has been pushed since the theme request was issued.
C19_Witness ==
  /\ Mounted
  /\ Len(themeCall) = 1
  /\ Len(reflectCall) = 1
  /\ Len(probeCall) = 1
  /\ themeCall[1].historyIndex = 0
  /\ historyIndex = 1

\* C21: every snapshot of the history has exactly one node whose parentId is
\* null (the root), after any sequence of create, link, update, theme, undo and
\* redo.
C21_OneRoot ==
  \A s \in 1..Len(history) :
    Cardinality({i \in 1..Len(history[s].nodes) :
                   history[s].nodes[i].parentId = Null}) = 1

\* A snapshot with a created node lies beyond the cursor: the creation has been
\* undone.
C21_Witness ==
  /\ Len(history) = 2
  /\ historyIndex = 0
  /\ Len(history[2].nodes) = Len(INITIAL_NODES) + 1

\* C22: in every snapshot of the history each non-root node's parentId is the id
\* of a node of the same snapshot, and each entry of a node's manual links is
\* the id of a node of the same snapshot other than the node itself, no entry
\* appearing twice in one list.
C22_ReferentialIntegrity ==
  \A s \in 1..Len(history) :
    LET ns == history[s].nodes
    IN  \A i \in 1..Len(ns) :
          /\ ns[i].parentId # Null => \E k \in 1..Len(ns) : ns[k].id = ns[i].parentId
          /\ \A l \in 1..Len(ns[i].linkedIds) :
               /\ ns[i].linkedIds[l] # ns[i].id
               /\ \E k \in 1..Len(ns) : ns[k].id = ns[i].linkedIds[l]
               /\ \A m \in 1..Len(ns[i].linkedIds) :
                    ns[i].linkedIds[m] = ns[i].linkedIds[l] => m = l

\* A created node has been linked to the root: the last snapshot holds a node
\* that has a parent in it and a link to another node of it.
C22_Witness ==
  /\ Len(history) = 3
  /\ \E i \in 1..Len(history[3].nodes) :
       /\ history[3].nodes[i].id = NodeId(0)
       /\ history[3].nodes[i].linkedIds = <<"root">>

\* C23: a node's id, parentId, category and position are fixed at creation: any
\* two nodes with the same id, in the same or in different snapshots of the
\* history, have the same parentId, category and position.
C23_FixedAtCreation ==
  \A s, t \in 1..Len(history) :
    \A i \in 1..Len(history[s].nodes), j \in 1..Len(history[t].nodes) :
      history[s].nodes[i].id = history[t].nodes[j].id =>
        /\ history[s].nodes[i].parentId = history[t].nodes[j].parentId
        /\ history[s].nodes[i].type = history[t].nodes[j].type
        /\ history[s].nodes[i].position = history[t].nodes[j].position

\* C24: no push loses graph content: the snapshot a push appends contains every
\* node (by id) and every manual link of the snapshot that was current
\* immediately before the push, also when the push applies a theme result that
\* was requested before nodes or links were added.
C24_PushKeepsContent ==
  [][(Mounted /\ history' # history) =>
       LET pushed == history'[Len(history')].nodes
       IN  \A i \in 1..Len(nodes) :
             \E k \in 1..Len(pushed) :
               /\ pushed[k].id = nodes[i].id
               /\ \A l \in 1..Len(nodes[i].linkedIds) :
                    Includes(pushed[k].linkedIds, nodes[i].linkedIds[l])]_vars

\* C25: the node the canvas uses as its camera focus (the last id of the stored
\* selection, looked up in the current nodes) is the primary selected node of
\* the App (the last node of the filtered selection), also after an undo that
\* leaves the id of a vanished node last in the stored selection.
C25_CameraFocusIsPrimary == Mounted => primaryNode = primarySelectedNode

\* C26: every enrichment request that was issued eventually leaves its pending
\* state: provided the service call settles, each of isGeneratingTheme, loading
\* and loadingProbes that is true eventually becomes false again, on every
\* outcome and whatever selection or history operations happen in between.
C26_PendingEnds ==
  /\ isGeneratingTheme ~> ~isGeneratingTheme
  /\ loading ~> ~loading
  /\ loadingProbes ~> ~loadingProbes

\* C27: in every snapshot of the history every node's color is the colour that
\* snapshot's theme gives to the node's category, also for a node created after
\* a theme change was undone.
C27_ColorsFollowTheme ==
  \A s \in 1..Len(history) :
    \A i \in 1..Len(history[s].nodes) :
      history[s].nodes[i].color = history[s].theme.nodeColors[history[s].nodes[i].type]

\* A generated theme has been applied and undone: the recoloured snapshot lies
\* beyond the cursor and the current theme is the default one again.
C27_Witness ==
  /\ Len(history) = 2
  /\ historyIndex = 0
  /\ history[2].theme = GENERATED_THEME
  /\ history[2].nodes[1].color = GENERATED_THEME.nodeColors["ROOT"]
  /\ ~isGeneratingTheme

\* C28: manual links are symmetric-unique: when a's links contain b, linking
\* (b, a) pushes nothing, so no snapshot of the history stores both a link from
\* a to b and a link from b to a.
C28_OneLinkPerPair ==
  \A s \in 1..Len(history) :
    \A i, j \in 1..Len(history[s].nodes) :
      ~ /\ Includes(history[s].nodes[i].linkedIds, history[s].nodes[j].id)
        /\ Includes(history[s].nodes[j].linkedIds, history[s].nodes[i].id)

====
